---------------------------- MODULE Spec2Model ----------------------------
(***************************************************************************)
(* Model of src/src/storage_diagnostics.py: the storage-diagnostics core   *)
(* of PcInfo (collection run, completion wait, report grammar, artifact    *)
(* store).                                                                 *)
(*                                                                         *)
(* Text is a sequence of tokens.  A token stands for a run of characters   *)
(* that the regular expressions of the source never split: a banner, a     *)
(* run of digits, a word, one punctuation character, one blank, one line   *)
(* break.  Non-ASCII literals of the source are written in ASCII:          *)
(*   "jikan" is the unit of Power On Hours (line 142),                     *)
(*   "kai"   is the unit of Power On Count (line 143),                     *)
(*   "disuku" is the word of the per-device header (lines 37, 187, 360).   *)
(***************************************************************************)
EXTENDS Integers, Sequences, FiniteSets, TLC

VARIABLES
    tool,        \* tool[r]: the DiskInfo32.exe process launched by run r
    raw,         \* CrystalDiskInfo/DiskInfo.txt: NoFile or its text
    logFolder,   \* the log folder exists
    logdir,      \* files of the log folder: name -> [content, mtime]
    writes,      \* files written so far (orders the modification times)
    now,         \* wall clock, in ticks
    pc,          \* position of get_CrystalDiskInfo_log
    run,         \* number of the current (or last) call
    loc,         \* locals of get_CrystalDiskInfo_log
    result,      \* value returned by the last call ("none" while running)
    logged,      \* kind of the last logger.error line of the call
    obs,         \* what the call has done so far (observation record)
    calls        \* calls[c]: a call of get_CrystalDiskInfo_log made while
                 \* others are running (overlapping calls)

vars == <<tool, raw, logFolder, logdir, writes, now, pc, run, loc, result, logged,
          obs, calls>>

-----------------------------------------------------------------------------
(* Bounds of the model *)

MaxRuns == 1        \* calls of get_CrystalDiskInfo_log
MaxChunks == 5      \* chunks of a generated report text
MaxCalls == 2       \* calls of get_CrystalDiskInfo_log running at the same time

-----------------------------------------------------------------------------
(* Tokens *)

NL == "\n"
SP == " "
DISK_LIST_BANNER == "-- Disk List ---------------------------------------------------------------"
RULE == "----------------------------------------------------------------------------"
SMART_BANNER == "-- S.M.A.R.T."
NA == <<"N/A">>

DigitTokens == {"0", "1", "2", "3", "8", "42", "100", "760"}

\* \s
IsSpace(t) == t \in {SP, NL}
\* \d+ matches one or more digit tokens
IsDigits(t) == t \in DigitTokens
\* . (without DOTALL) matches every token but the line break
NotNL(t) == t # NL
\* [\d,\.]
IsNumChar(t) == t \in DigitTokens \cup {",", "."}

\* re.IGNORECASE: tokens compare after case folding
Fold(t) ==
    CASE t = "MODEL" -> "Model"
      [] t = "health status" -> "Health Status"
      [] t = "gb" -> "GB"
      [] OTHER -> t

MinOf(S) == CHOOSE x \in S : \A y \in S : x <= y
MaxOf(S) == CHOOSE x \in S : \A y \in S : x >= y

\* last index of the longest run of tokens satisfying P that starts at from
\* (from - 1 when the run is empty)
RunEnd(t, from, P(_)) ==
    LET stops == {i \in from..Len(t) : ~P(t[i])}
    IN  IF stops = {} THEN Len(t) ELSE MinOf(stops) - 1

\* SubSeq that is empty when hi < lo
Slice(t, lo, hi) == IF hi < lo THEN <<>> ELSE SubSeq(t, lo, hi)

\* str.strip()
Strip(t) ==
    LET keep == {i \in 1..Len(t) : ~IsSpace(t[i])}
    IN  IF keep = {} THEN <<>> ELSE SubSeq(t, MinOf(keep), MaxOf(keep))

\* str.replace(tok, '')
RECURSIVE Remove(_, _)
Remove(t, tok) ==
    IF t = <<>> THEN <<>>
    ELSE IF Head(t) = tok THEN Remove(Tail(t), tok)
    ELSE <<Head(t)>> \o Remove(Tail(t), tok)

NoMatch == [found |-> FALSE, first |-> 0, last |-> 0, group |-> <<>>]

-----------------------------------------------------------------------------
(* Report Grammar: the compiled patterns *)

\* DISK_LIST_PATTERN.search(t): banner, line break, lazy group, line break, rule
DISK_LIST_PATTERN(t) ==
    LET starts == {i \in 1..(Len(t) - 1) : t[i] = DISK_LIST_BANNER /\ t[i+1] = NL}
        ends(i) == {j \in (i+2)..(Len(t) - 1) : t[j] = NL /\ t[j+1] = RULE}
        ok == {i \in starts : ends(i) # {}}
    IN  IF ok = {} THEN NoMatch
        ELSE LET i == MinOf(ok)
                 j == MinOf(ends(i))
             IN  [found |-> TRUE, first |-> i, last |-> j + 1,
                  group |-> Slice(t, i + 2, j - 1)]

\* end of "\s+(.+)" / "\s*(.+)" started at q (the first token after the
\* literal): the blanks are greedy, the group takes the rest of the line;
\* when the blanks run to the end of the text the group backtracks into
\* them.  Returns <<first, last>> of the group, or <<0, 0>>.
RestOfLine(t, q, minBlanks) ==
    LET w == RunEnd(t, q, IsSpace)
    IN  IF w - q + 1 < minBlanks THEN <<0, 0>>
        ELSE IF w < Len(t) THEN <<w + 1, RunEnd(t, w + 1, NotNL)>>
        ELSE LET back == {v \in (q + minBlanks)..Len(t) : t[v] = SP}
             IN  IF back = {} THEN <<0, 0>>
                 ELSE <<MaxOf(back), RunEnd(t, MaxOf(back), NotNL)>>

\* DISK_ENTRY_PATTERN matched at position k: \((\d+)\)\s+(.+)
DiskEntryAt(t, k) ==
    IF k > Len(t) \/ t[k] # "(" THEN NoMatch
    ELSE LET d == RunEnd(t, k + 1, IsDigits)
         IN  IF d < k + 1 \/ d + 1 > Len(t) \/ t[d + 1] # ")" THEN NoMatch
             ELSE LET g == RestOfLine(t, d + 2, 1)
                  IN  IF g[1] = 0 THEN NoMatch
                      ELSE [found |-> TRUE, first |-> k, last |-> g[2],
                            group |-> <<Slice(t, k + 1, d), Slice(t, g[1], g[2])>>]

\* DISK_ENTRY_PATTERN.findall(t), scanning from position p
RECURSIVE DiskEntryFrom(_, _)
DiskEntryFrom(t, p) ==
    LET hits == {k \in p..Len(t) : DiskEntryAt(t, k).found}
    IN  IF hits = {} THEN <<>>
        ELSE LET m == DiskEntryAt(t, MinOf(hits))
             IN  <<m.group>> \o DiskEntryFrom(t, m.last + 1)

DISK_ENTRY_PATTERN(t) == DiskEntryFrom(t, 1)

\* position p closes a detail header: line break, rule, line break
ClosesHeader(t, p) ==
    p + 2 <= Len(t) /\ t[p] = NL /\ t[p+1] = RULE /\ t[p+2] = NL

\* first position at or after e where "\n-- S.M.A.R.T." starts, or 0
SmartFrom(t, e) ==
    LET cs == {c \in e..(Len(t) - 1) : t[c] = NL /\ t[c+1] = SMART_BANNER}
    IN  IF cs = {} THEN 0 ELSE MinOf(cs)

\* DISK_SECTION_PATTERN matched at position a:
\* rule \n \s* \( \d+ \) \s+ .+? \n rule \n (.*?) \n -- S.M.A.R.T.   (DOTALL)
DiskSectionAt(t, a) ==
    IF a + 1 > Len(t) \/ t[a] # RULE \/ t[a+1] # NL THEN NoMatch
    ELSE LET k == RunEnd(t, a + 1, IsSpace) + 1
         IN  IF k > Len(t) \/ t[k] # "(" THEN NoMatch
             ELSE LET d == RunEnd(t, k + 1, IsDigits)
                  IN  IF d < k + 1 \/ d + 1 > Len(t) \/ t[d + 1] # ")" THEN NoMatch
                      ELSE LET q == d + 2
                               w == RunEnd(t, q, IsSpace)
                               far == {p \in (w + 2)..Len(t) : ClosesHeader(t, p)}
                               \* blanks greedy, ".+?" lazy: the first closing
                               \* rule after a non-blank header text ...
                               pFar == IF far = {} THEN 0 ELSE MinOf(far)
                               \* ... else, backtracking into the blanks, the rule
                               \* that directly follows them
                               pNear == IF w >= q + 2 /\ ClosesHeader(t, w) THEN w ELSE 0
                               p == IF pFar # 0 /\ SmartFrom(t, pFar + 3) # 0 THEN pFar
                                    ELSE IF pNear # 0 /\ SmartFrom(t, pNear + 3) # 0
                                         THEN pNear ELSE 0
                           IN  IF w < q \/ p = 0 THEN NoMatch
                               ELSE LET c == SmartFrom(t, p + 3)
                                    IN  [found |-> TRUE, first |-> a, last |-> c + 1,
                                         group |-> Slice(t, p + 3, c - 1)]

\* DISK_SECTION_PATTERN.findall(t), scanning from position p
RECURSIVE DiskSectionFrom(_, _)
DiskSectionFrom(t, p) ==
    LET hits == {a \in p..Len(t) : DiskSectionAt(t, a).found}
    IN  IF hits = {} THEN <<>>
        ELSE LET m == DiskSectionAt(t, MinOf(hits))
             IN  <<m.group>> \o DiskSectionFrom(t, m.last + 1)

DISK_SECTION_PATTERN(t) == DiskSectionFrom(t, 1)

-----------------------------------------------------------------------------
(* Report Grammar: field extraction and get_storage_log *)

\* the pattern strings of lines 139-145.  "rest": label \s* : \s* (.+) ;
\* "digits": label \s* : \s* (\d+) \s* unit ; "number": the same with [\d,\.]+
PatModel == [label |-> "Model", kind |-> "rest", unit |-> ""]
PatDiskSize == [label |-> "Disk Size", kind |-> "rest", unit |-> ""]
PatInterface == [label |-> "Interface", kind |-> "rest", unit |-> ""]
PatPowerOnHours == [label |-> "Power On Hours", kind |-> "digits", unit |-> "jikan"]
PatPowerOnCount == [label |-> "Power On Count", kind |-> "digits", unit |-> "kai"]
PatHostWrites == [label |-> "Host Writes", kind |-> "number", unit |-> "GB"]
PatHealthStatus == [label |-> "Health Status", kind |-> "rest", unit |-> ""]

\* the pattern matched with its label at position k
FieldAt(text, k, pattern) ==
    IF k > Len(text) \/ Fold(text[k]) # pattern.label THEN NoMatch
    ELSE LET a == RunEnd(text, k + 1, IsSpace)
         IN  IF a + 1 > Len(text) \/ text[a + 1] # ":" THEN NoMatch
             ELSE IF pattern.kind = "rest"
             THEN LET g == RestOfLine(text, a + 2, 0)
                  IN  IF g[1] = 0 THEN NoMatch
                      ELSE [found |-> TRUE, first |-> k, last |-> g[2],
                            group |-> Slice(text, g[1], g[2])]
             ELSE LET b == RunEnd(text, a + 2, IsSpace)
                      e == IF pattern.kind = "digits"
                           THEN RunEnd(text, b + 1, IsDigits)
                           ELSE RunEnd(text, b + 1, IsNumChar)
                      u == RunEnd(text, e + 1, IsSpace)
                  IN  IF e < b + 1 \/ u + 1 > Len(text)
                         \/ Fold(text[u + 1]) # pattern.unit
                      THEN NoMatch
                      ELSE [found |-> TRUE, first |-> k, last |-> u + 1,
                            group |-> Slice(text, b + 1, e)]

\* mutant: the last match is taken
extract_field_LastMatch(text, pattern) ==
    LET hits == {k \in 1..Len(text) : FieldAt(text, k, pattern).found}
    IN  IF hits = {} THEN NA
        ELSE Strip(FieldAt(text, MaxOf(hits), pattern).group)

\* extract_field: re.search takes the leftmost position where the pattern matches
extract_field(text, pattern) ==
    LET hits == {k \in 1..Len(text) : FieldAt(text, k, pattern).found}
    IN  IF hits = {} THEN NA
        ELSE Strip(FieldAt(text, MinOf(hits), pattern).group)

\* the keys of the dict built at lines 138-146
FieldNames ==
    {"Model", "Disk Size", "Interface", "Power On Hours", "Power On Count",
     "Host Writes", "Health Status"}

\* mutant: the commas stay in Host Writes
disk_info_KeepsCommas(section) ==
    ("Model" :> extract_field(section, PatModel))
    @@ ("Disk Size" :> extract_field(section, PatDiskSize))
    @@ ("Interface" :> extract_field(section, PatInterface))
    @@ ("Power On Hours" :> extract_field(section, PatPowerOnHours))
    @@ ("Power On Count" :> extract_field(section, PatPowerOnCount))
    @@ ("Host Writes" :> extract_field(section, PatHostWrites))
    @@ ("Health Status" :> extract_field(section, PatHealthStatus))

\* mutant: a field that was not found gets no key
disk_info_OmitsMissing(section) ==
    LET all == disk_info_KeepsCommas(section)
        hw == all["Host Writes"]
        found == {k \in FieldNames : all[k] # NA}
    IN  [k \in found |-> IF k = "Host Writes" THEN Remove(hw, ",") ELSE all[k]]

\* the dict built at lines 138-146
disk_info(section) ==
    LET hw == extract_field(section, PatHostWrites)
    IN  ("Model" :> extract_field(section, PatModel))
        @@ ("Disk Size" :> extract_field(section, PatDiskSize))
        @@ ("Interface" :> extract_field(section, PatInterface))
        @@ ("Power On Hours" :> extract_field(section, PatPowerOnHours))
        @@ ("Power On Count" :> extract_field(section, PatPowerOnCount))
        @@ ("Host Writes" :> IF hw # <<>> THEN Remove(hw, ",") ELSE NA)
        @@ ("Health Status" :> extract_field(section, PatHealthStatus))

\* mutant: a record with a field that was not found is left out
RECURSIVE SectionRecords_SkipsIncomplete(_)
SectionRecords_SkipsIncomplete(disk_sections) ==
    IF disk_sections = <<>> THEN <<>>
    ELSE LET section == Strip(Head(disk_sections))
             complete == section # <<>>
                         /\ \A k \in FieldNames : disk_info(section)[k] # NA
         IN  (IF complete THEN <<disk_info(section)>> ELSE <<>>)
             \o SectionRecords_SkipsIncomplete(Tail(disk_sections))

\* mutant: a record is put in front of the ones before it
RECURSIVE SectionRecords_Reversed(_)
SectionRecords_Reversed(disk_sections) ==
    IF disk_sections = <<>> THEN <<>>
    ELSE LET section == Strip(Head(disk_sections))
         IN  SectionRecords_Reversed(Tail(disk_sections))
             \o (IF section = <<>> THEN <<>> ELSE <<disk_info(section)>>)

\* the loop of lines 129-156 over the detail sections
RECURSIVE SectionRecords(_)
SectionRecords(disk_sections) ==
    IF disk_sections = <<>> THEN <<>>
    ELSE LET section == Strip(Head(disk_sections))
         IN  (IF section = <<>> THEN <<>> ELSE <<disk_info(section)>>)
             \o SectionRecords(Tail(disk_sections))

\* mutant: the check of lines 115-117 is missing
get_storage_log_NoEntryCheck(log_text) ==
    LET disk_list_match == DISK_LIST_PATTERN(log_text)
    IN  IF ~disk_list_match.found THEN <<>>
        ELSE SectionRecords(DISK_SECTION_PATTERN(log_text))

\* mutant: no more records than the disk list has entries
get_storage_log_ByEntryCount(log_text) ==
    LET disk_list_match == DISK_LIST_PATTERN(log_text)
        disk_entries == DISK_ENTRY_PATTERN(disk_list_match.group)
        records == SectionRecords(DISK_SECTION_PATTERN(log_text))
    IN  IF ~disk_list_match.found THEN <<>>
        ELSE IF disk_entries = <<>> THEN <<>>
        ELSE IF Len(records) <= Len(disk_entries) THEN records
        ELSE SubSeq(records, 1, Len(disk_entries))

get_storage_log(log_text) ==
    LET disk_list_match == DISK_LIST_PATTERN(log_text)
    IN  IF ~disk_list_match.found THEN <<>>
        ELSE IF DISK_ENTRY_PATTERN(disk_list_match.group) = <<>> THEN <<>>
        ELSE SectionRecords(DISK_SECTION_PATTERN(log_text))

-----------------------------------------------------------------------------
(* Artifact Store: serialization *)

\* str(idx) of the f-string at line 187
IdxToken(idx) == <<"1", "2", "3", "4", "5", "6", "7", "8", "9">>[idx]

\* f"  {label}: {value}\n"
FieldLine(label, value) == <<SP, SP, label, ":", SP>> \o value \o <<NL>>

\* the eight f.write calls of one device (lines 187-194)
DiskBlock(idx, disk) ==
    <<"disuku", SP, IdxToken(idx), ":", NL>>
    \o FieldLine("Model", disk["Model"])
    \o FieldLine("Disk Size", disk["Disk Size"])
    \o FieldLine("Interface", disk["Interface"])
    \o FieldLine("Power On Hours", disk["Power On Hours"])
    \o FieldLine("Power On Count", disk["Power On Count"])
    \o FieldLine("Host Writes", disk["Host Writes"])
    \o FieldLine("Health Status", disk["Health Status"]) \o <<NL>>

RECURSIVE SerializeFrom(_, _)
SerializeFrom(disks, idx) ==
    IF idx > Len(disks) THEN <<>>
    ELSE DiskBlock(idx, disks[idx]) \o SerializeFrom(disks, idx + 1)

\* the text save_storage_info writes for disks
Serialize(disks) == SerializeFrom(disks, 1)

\* open(path, 'w') followed by writes: the file is created or replaced
WriteFile(dir, path, text, stamp) ==
    [n \in DOMAIN dir \cup {path} |->
        IF n = path THEN [content |-> text, mtime |-> stamp] ELSE dir[n]]

\* save_storage_info: io is what the file system does to the call.  Every
\* exception is caught and logged; nothing is returned or raised.
save_storage_info(dir, disks, path, io, stamp) ==
    CASE io = "ok" -> WriteFile(dir, path, Serialize(disks), stamp)
      [] io = "open_fails" -> dir
      [] io = "write_fails" ->
            WriteFile(dir, path,
                      Slice(Serialize(disks), 1, Len(Serialize(disks)) \div 2), stamp)

-----------------------------------------------------------------------------
(* Report texts DiskInfo32.exe may leave in DiskInfo.txt *)

RECURSIVE Join(_)
Join(lines) ==
    IF lines = <<>> THEN <<>>
    ELSE IF Len(lines) = 1 THEN lines[1]
    ELSE lines[1] \o <<NL>> \o Join(Tail(lines))

EntryLine == <<SP, "(", "1", ")", SP, "SSD-A">>
SmartLine == <<SMART_BANNER, SP, "----">>
FieldLines ==
    << <<"Model", SP, ":", SP, "SSD-A">>,
       <<"Disk Size", SP, ":", SP, "100", ".", "2", SP, "GB">>,
       <<"Interface", SP, ":", SP, "NVMe">>,
       <<"Power On Hours", SP, ":", SP, "760", SP, "jikan">>,
       <<"Power On Count", SP, ":", SP, "42", SP, "kai">>,
       <<"Host Writes", SP, ":", SP, "8", ",", "760", SP, "GB">>,
       <<"Health Status", SP, ":", SP, "Good">> >>

\* a detail block without its opening rule
DetailBlock == Join(<<EntryLine, <<RULE>>, Join(FieldLines), SmartLine>>)

ReportOneDisk == Join(<< <<DISK_LIST_BANNER>>, EntryLine, <<>>, <<RULE>>, DetailBlock >>)
ReportNoList == Join(<< <<"CrystalDiskInfo">>, <<RULE>>, DetailBlock >>)

ToolReports == {<<>>, ReportOneDisk, ReportNoList}

-----------------------------------------------------------------------------
(* State *)

\* One clock tick is the 0.5 s of time.sleep(0.5) (line 256).
TicksPerSecond == 2
timeout == 10                       \* seconds (line 247)
\* calls are made in the first second of an epoch; an epoch outlasts a call
Epoch == (timeout + 2) * TicksPerSecond

Runs == 1..MaxRuns
\* process 0 is a DiskInfo32.exe that runs when the program starts
Procs == 0..MaxRuns
InTable == {"running"}              \* states in which psutil lists the process
NoTool == [st |-> "none", early |-> FALSE, long |-> FALSE]
NoFile == [exists |-> FALSE, text |-> <<>>, by |-> 0]
EmptyDir == [n \in {} |-> 0]
NoLocals == [timestamp |-> 0, start_time |-> 0, content |-> <<>>, disks |-> <<>>]

\* calls that overlap: each has its position, the locals timestamp and
\* content, the tool process whose text it copied (from, 0 for none), what it
\* returned and logged, and whether it was between launch and cleanup while
\* another call was
Calls == 1..MaxCalls
NoCall == [pc |-> "idle", timestamp |-> 0, content |-> <<>>, from |-> 0,
           result |-> "none", logged |-> "none", overlapped |-> FALSE]
NoCalls == [c \in Calls |-> NoCall]

\* file names of one call (lines 230-235)
path_CrystalDiskInfo_log(timestamp) == <<"storage_health_log", timestamp>>
path_storage_info_log(timestamp) == <<"storage_info_log", timestamp>>

\* stands for bytes that are not UTF-8
BAD == "0xFF"

\* what get_storage_info returns: None or a list
None == [isNone |-> TRUE, list |-> <<>>]
ListOf(l) == [isNone |-> FALSE, list |-> l]

\* what a call has done, reset when a call starts, and the last query of
\* the catalog since
NewObs(sawExe) ==
    [sawExe |-> sawExe,           \* os.path.exists(executable_path) at line 214
     rawAtStart |-> raw,          \* DiskInfo.txt when the call started
     dirAtStart |-> logdir,       \* log folder content when the call started
     launches |-> 0,              \* calls of ShellExecuteW
     raised |-> FALSE,            \* ShellExecuteW raised
     code |-> 0,                  \* value ShellExecuteW returned
     polled |-> FALSE,            \* the process table was read
     seen |-> FALSE,              \* the last poll found a matching process
     elapsed |-> 0,               \* time.time() - start_time at the last poll
     wait |-> "none",             \* outcome of the wait loop
     rawAfterWait |-> "unknown",  \* DiskInfo.txt when lines 259/266 looked at it
     sizeChecked |-> FALSE,       \* os.path.getsize was called
     reads |-> 0,                 \* src.read() calls
     copy |-> "none",             \* outcome of the copy (lines 273-280)
     parsed |-> FALSE,            \* get_storage_log was called
     save |-> "none",             \* outcome of save_storage_info, "skipped"
     removes |-> 0,               \* os.remove calls
     remove |-> "none",           \* outcome of os.remove
     query |-> "none",            \* "list": search_storage_log, "read": get_storage_info
     asked |-> <<>>,              \* log_filename of the query
     answer |-> None]             \* what the query returned

Init ==
    /\ \E st \in {"none", "running"} :
          tool = [r \in Procs |-> IF r = 0 THEN [NoTool EXCEPT !.st = st] ELSE NoTool]
    /\ \E text \in ToolReports, exists \in BOOLEAN :
          raw = IF exists THEN [exists |-> TRUE, text |-> text, by |-> 0] ELSE NoFile
    /\ logFolder = FALSE
    /\ logdir = EmptyDir
    /\ writes = 0
    /\ now = 0
    /\ pc = "idle"
    /\ run = 0
    /\ loc = NoLocals
    /\ result = "none"
    /\ logged = "none"
    /\ obs = NewObs(FALSE)
    /\ calls = NoCalls

-----------------------------------------------------------------------------
(* Catalog Query: search_storage_log and get_storage_info *)

\* sorted(..., key=os.path.getmtime, reverse=True) over the names of files
RECURSIVE NewestFirst(_, _)
NewestFirst(dir, files) ==
    IF files = {} THEN <<>>
    ELSE LET f == CHOOSE x \in files : \A y \in files : dir[x].mtime >= dir[y].mtime
         IN  <<f>> \o NewestFirst(dir, files \ {f})

\* mutant: reverse=True is missing
RECURSIVE OldestFirst(_, _)
OldestFirst(dir, files) ==
    IF files = {} THEN <<>>
    ELSE LET f == CHOOSE x \in files : \A y \in files : dir[x].mtime <= dir[y].mtime
         IN  <<f>> \o OldestFirst(dir, files \ {f})

\* glob.glob(".../log/storage_info_log_*.txt") (lines 313-314)
glob(dir) == {f \in DOMAIN dir : f = path_storage_info_log(f[2])}

\* mutant: the list is sorted oldest first
search_storage_log_OldestFirst(dir) ==
    IF glob(dir) = {} THEN <<>> ELSE OldestFirst(dir, glob(dir))

\* mutant: files named for a second before the current one are left out
search_storage_log_AgeFiltered(dir) ==
    LET recent == {f \in glob(dir) : f[2] >= now \div TicksPerSecond}
    IN  IF recent = {} THEN <<>> ELSE NewestFirst(dir, recent)

\* search_storage_log (lines 303-324)
search_storage_log(dir) ==
    LET log_files == glob(dir)
    IN  IF log_files = {} THEN <<>> ELSE NewestFirst(dir, log_files)

\* str.split('\n')
RECURSIVE SplitLines(_)
SplitLines(t) ==
    LET nl == {i \in 1..Len(t) : t[i] = NL}
    IN  IF nl = {} THEN <<t>>
        ELSE <<Slice(t, 1, MinOf(nl) - 1)>>
             \o SplitLines(Slice(t, MinOf(nl) + 1, Len(t)))

\* (?:  .+\n)+ from p: the last index of the lines matched (p - 1 when none)
RECURSIVE IndentedLinesEnd(_, _)
IndentedLinesEnd(t, p) ==
    LET e == RunEnd(t, p + 2, NotNL)
    IN  IF p + 3 <= Len(t) /\ t[p] = SP /\ t[p + 1] = SP
           /\ e >= p + 2 /\ e + 1 <= Len(t)
        THEN IndentedLinesEnd(t, e + 2)
        ELSE p - 1

\* DISK_INFO_PATTERN matched at k: the last index of the match, 0 when none
DiskInfoAt(t, k) ==
    IF t[k] # "disuku" THEN 0
    ELSE LET a == RunEnd(t, k + 1, IsSpace)
             d == RunEnd(t, a + 1, IsDigits)
         IN  IF a < k + 1 \/ d < a + 1 \/ d + 2 > Len(t) THEN 0
             ELSE IF t[d + 1] # ":" \/ t[d + 2] # NL THEN 0
             ELSE LET e == IndentedLinesEnd(t, d + 3)
                  IN  IF e < d + 3 THEN 0 ELSE e

\* DISK_INFO_PATTERN.findall(content): the matches from left to right, each
\* the leftmost one after the end of the one before
RECURSIVE DiskInfoFrom(_, _)
DiskInfoFrom(t, p) ==
    LET starts == {k \in p..Len(t) : DiskInfoAt(t, k) # 0}
    IN  IF starts = {} THEN <<>>
        ELSE LET k == MinOf(starts)
                 e == DiskInfoAt(t, k)
             IN  <<Slice(t, k, e)>> \o DiskInfoFrom(t, e + 1)

DISK_INFO_PATTERN(t) == DiskInfoFrom(t, 1)

\* mutant: the header line is not skipped
RECURSIVE disk_dict_KeepsHeader(_, _, _)
disk_dict_KeepsHeader(lines, i, d) ==
    IF i > Len(lines) THEN d
    ELSE LET line == Strip(lines[i])
             colons == {j \in 1..Len(line) : line[j] = ":"}
         IN  IF colons = {} THEN disk_dict_KeepsHeader(lines, i + 1, d)
             ELSE LET key == Strip(Slice(line, 1, MinOf(colons) - 1))
                      value == Strip(Slice(line, MinOf(colons) + 1, Len(line)))
                  IN  disk_dict_KeepsHeader(lines, i + 1, (key :> value) @@ d)

\* the loop of lines 356-362 from line i on: disk_dict, keyed by the text
\* before the first colon
RECURSIVE disk_dict(_, _, _)
disk_dict(lines, i, d) ==
    IF i > Len(lines) THEN d
    ELSE LET line == Strip(lines[i])
             colons == {j \in 1..Len(line) : line[j] = ":"}
         IN  IF colons = {} THEN disk_dict(lines, i + 1, d)
             ELSE LET key == Strip(Slice(line, 1, MinOf(colons) - 1))
                      value == Strip(Slice(line, MinOf(colons) + 1, Len(line)))
                  IN  IF key # <<>> /\ key[1] = "disuku"
                      THEN disk_dict(lines, i + 1, d)
                      ELSE disk_dict(lines, i + 1, (key :> value) @@ d)

EmptyDict == [k \in {} |-> <<>>]

\* the loop of lines 353-364
RECURSIVE parsed_disks(_)
parsed_disks(disks) ==
    IF disks = <<>> THEN <<>>
    ELSE <<disk_dict(SplitLines(Strip(Head(disks))), 1, EmptyDict)>>
         \o parsed_disks(Tail(disks))

\* f.read() raises on bytes that are not UTF-8
Undecodable(text) == \E i \in 1..Len(text) : text[i] = BAD

\* mutant: an error yields an empty list
get_storage_info_EmptyOnError(dir, log_filename) ==
    IF log_filename \notin DOMAIN dir THEN None
    ELSE IF Undecodable(dir[log_filename].content) THEN ListOf(<<>>)
    ELSE ListOf(parsed_disks(DISK_INFO_PATTERN(dir[log_filename].content)))

\* get_storage_info (lines 327-369): None for a missing file and for any
\* exception, else the list of the dicts
get_storage_info(dir, log_filename) ==
    IF log_filename \notin DOMAIN dir THEN None
    ELSE IF Undecodable(dir[log_filename].content) THEN None
    ELSE ListOf(parsed_disks(DISK_INFO_PATTERN(dir[log_filename].content)))

-----------------------------------------------------------------------------
(* Diagnostic Invoker: get_CrystalDiskInfo_log, one action per step *)

\* values ShellExecuteW may return: <= 32 is an error code
ShellExecuteResults == {5, 32, 33}

\* mutant: 32 taken for success
run_CrystalDiskInfo_OffByOne(raised, code) ==
    IF raised THEN FALSE
    ELSE IF code < 32 THEN FALSE
    ELSE TRUE

\* run_CrystalDiskInfo (lines 57-86): True iff the call returned more than 32
run_CrystalDiskInfo(raised, code) ==
    IF raised THEN FALSE
    ELSE IF code <= 32 THEN FALSE
    ELSE TRUE

\* logger.error(...); return False
ReturnFalse(kind) ==
    /\ logged' = kind
    /\ result' = "False"
    /\ pc' = "returned"

\* lines 208-239 with os.path.exists(executable_path) = exists, the code
\* branching on found
CheckExecutableStep(exists, found) ==
    /\ pc = "idle"
    /\ run < MaxRuns
    /\ run' = run + 1
    /\ obs' = NewObs(exists)
    /\ IF ~found
       THEN /\ ReturnFalse("ToolNotFound")
            /\ loc' = NoLocals
            /\ UNCHANGED logFolder
       ELSE /\ loc' = [NoLocals EXCEPT !.timestamp = now \div TicksPerSecond]
            /\ logFolder' = TRUE
            /\ pc' = "launch"
            /\ result' = "none"
            /\ logged' = "none"
    /\ UNCHANGED <<calls, tool, raw, logdir, writes, now>>

\* mutant: the executable is not looked for
CheckExecutable_NoCheck == \E exists \in BOOLEAN : CheckExecutableStep(exists, TRUE)

\* lines 208-239: resolve the executable, name the files of this call,
\* create the log folder
CheckExecutable == \E exists \in BOOLEAN : CheckExecutableStep(exists, exists)

\* mutant: a failed launch is tried a second time
Launch_RetryOnFailure ==
    /\ pc = "launch"
    /\ \E raised \in BOOLEAN, code \in ShellExecuteResults :
          LET o == [obs EXCEPT !.launches = @ + 1, !.raised = raised,
                               !.code = IF raised THEN 0 ELSE code]
          IN  IF run_CrystalDiskInfo(raised, code)
              THEN /\ tool' = [tool EXCEPT ![run] = [NoTool EXCEPT !.st = "pending"]]
                   /\ obs' = o
                   /\ loc' = [loc EXCEPT !.start_time = now]
                   /\ pc' = "poll"
                   /\ UNCHANGED <<result, logged>>
              ELSE IF o.launches < 2
              THEN /\ obs' = o
                   /\ UNCHANGED <<tool, loc, pc, result, logged>>
              ELSE /\ obs' = o
                   /\ ReturnFalse("LaunchFailed")
                   /\ UNCHANGED <<tool, loc>>
    /\ UNCHANGED <<calls, raw, logFolder, logdir, writes, now, run>>

\* lines 241-248: elevated launch with /CopyExit, then start_time
Launch ==
    /\ pc = "launch"
    /\ \E raised \in BOOLEAN, code \in ShellExecuteResults :
          LET o == [obs EXCEPT !.launches = @ + 1, !.raised = raised,
                               !.code = IF raised THEN 0 ELSE code]
          IN  IF run_CrystalDiskInfo(raised, code)
              THEN /\ tool' = [tool EXCEPT ![run] = [NoTool EXCEPT !.st = "pending"]]
                   /\ obs' = o
                   /\ loc' = [loc EXCEPT !.start_time = now]
                   /\ pc' = "poll"
                   /\ UNCHANGED <<result, logged>>
              ELSE /\ obs' = o
                   /\ ReturnFalse("LaunchFailed")
                   /\ UNCHANGED <<tool, loc>>
    /\ UNCHANGED <<calls, raw, logFolder, logdir, writes, now, run>>

\* any(proc.info['name'].lower() == 'diskinfo32.exe' ...) (line 250)
ProcessListed == \E r \in Procs : tool[r].st \in InTable

\* time.time() - start_time > timeout (line 253)
Expired == now - loc.start_time > timeout * TicksPerSecond

\* one pass of the loop of lines 249-256, up to the sleep: break when
\* finished, else return False when expired, else sleep
PollStep(finished, expired) ==
    /\ pc = "poll"
    /\ LET o == [obs EXCEPT !.polled = TRUE, !.seen = ProcessListed,
                            !.elapsed = now - loc.start_time]
       IN  IF finished
           THEN /\ obs' = [o EXCEPT !.wait = "Done"]
                /\ pc' = "check_exists"
                /\ UNCHANGED <<loc, result, logged>>
           ELSE IF expired
           THEN /\ obs' = [o EXCEPT !.wait = "TimedOut"]
                /\ ReturnFalse("CollectionTimedOut")
                /\ UNCHANGED loc
           ELSE /\ obs' = o
                /\ pc' = "sleep"
                /\ UNCHANGED <<loc, result, logged>>
    /\ UNCHANGED <<calls, tool, raw, logFolder, logdir, writes, now, run>>

\* mutant: on expiry the loop is left as if the process had finished
Poll_BreakOnExpiry == PollStep(~ProcessListed \/ Expired, FALSE)

\* mutant: the elapsed time is tested before the process table
Poll_ExpiryFirst == PollStep(~ProcessListed /\ ~Expired, Expired)

\* mutant: the loop gives up a second later
Poll_LateExpiry ==
    PollStep(~ProcessListed,
             now - loc.start_time > (timeout + 1) * TicksPerSecond)

Poll == PollStep(~ProcessListed, Expired)

\* time.sleep(0.5) (line 256)
Sleep ==
    /\ pc = "sleep"
    /\ now' = now + 1
    /\ pc' = "poll"
    /\ UNCHANGED <<calls, tool, raw, logFolder, logdir, writes, run, loc,
                   result, logged, obs>>

\* lines 258-263: os.path.exists(log_file_default)
CheckExists ==
    /\ pc = "check_exists"
    /\ obs' = [obs EXCEPT !.rawAfterWait = IF raw.exists THEN "exists" ELSE "missing"]
    /\ IF ~raw.exists
       THEN ReturnFalse("ArtifactMissing")
       ELSE /\ pc' = "check_size"
            /\ UNCHANGED <<result, logged>>
    /\ UNCHANGED <<calls, tool, raw, logFolder, logdir, writes, now, run, loc>>

\* lines 265-270, the code branching on empty
CheckSizeStep(empty) ==
    /\ pc = "check_size"
    /\ raw.exists
    /\ obs' = [obs EXCEPT !.sizeChecked = TRUE,
                          !.rawAfterWait = IF Len(raw.text) = 0 THEN "empty" ELSE "data"]
    /\ IF empty
       THEN ReturnFalse("ArtifactEmpty")
       ELSE /\ pc' = "copy"
            /\ UNCHANGED <<result, logged>>
    /\ UNCHANGED <<calls, tool, raw, logFolder, logdir, writes, now, run, loc>>

\* mutant: the size is not tested
CheckSize_NoCheck == CheckSizeStep(FALSE)

\* lines 265-270: os.path.getsize(log_file_default) == 0
CheckSize == CheckSizeStep(Len(raw.text) = 0)

\* what the file system may do to the copy of lines 273-280
CopyOutcomes == {"ok", "open_fails", "read_fails"}

\* mutant: a failure of the copy is logged and the call goes on
CopyRaw_IgnoresFailure ==
    /\ pc = "copy"
    /\ \E io \in CopyOutcomes :
          CASE io = "ok" ->
                 /\ loc' = [loc EXCEPT !.content = raw.text]
                 /\ logdir' = WriteFile(logdir, path_CrystalDiskInfo_log(loc.timestamp),
                                        raw.text, writes + 1)
                 /\ writes' = writes + 1
                 /\ obs' = [obs EXCEPT !.reads = @ + 1, !.copy = io]
            [] io = "open_fails" ->
                 /\ obs' = [obs EXCEPT !.copy = io]
                 /\ UNCHANGED <<loc, logdir, writes>>
            [] io = "read_fails" ->
                 /\ logdir' = WriteFile(logdir, path_CrystalDiskInfo_log(loc.timestamp),
                                        <<>>, writes + 1)
                 /\ writes' = writes + 1
                 /\ obs' = [obs EXCEPT !.reads = @ + 1, !.copy = io]
                 /\ UNCHANGED loc
    /\ pc' = "parse"
    /\ UNCHANGED <<calls, tool, raw, logFolder, now, run, result, logged>>

\* lines 272-280: read DiskInfo.txt and write storage_health_log_<ts>.txt.
\* open_fails: DiskInfo.txt cannot be opened, nothing is created;
\* read_fails: src.read() raises after the target was created empty.
CopyRaw ==
    /\ pc = "copy"
    /\ \E io \in CopyOutcomes :
          CASE io = "ok" ->
                 /\ loc' = [loc EXCEPT !.content = raw.text]
                 /\ logdir' = WriteFile(logdir, path_CrystalDiskInfo_log(loc.timestamp),
                                        raw.text, writes + 1)
                 /\ writes' = writes + 1
                 /\ obs' = [obs EXCEPT !.reads = @ + 1, !.copy = io]
                 /\ pc' = "parse"
                 /\ UNCHANGED <<result, logged>>
            [] io = "open_fails" ->
                 /\ obs' = [obs EXCEPT !.copy = io]
                 /\ ReturnFalse("CopyFailed")
                 /\ UNCHANGED <<loc, logdir, writes>>
            [] io = "read_fails" ->
                 /\ logdir' = WriteFile(logdir, path_CrystalDiskInfo_log(loc.timestamp),
                                        <<>>, writes + 1)
                 /\ writes' = writes + 1
                 /\ obs' = [obs EXCEPT !.reads = @ + 1, !.copy = io]
                 /\ ReturnFalse("CopyFailed")
                 /\ UNCHANGED loc
    /\ UNCHANGED <<calls, tool, raw, logFolder, now, run>>

\* line 283: disks = get_storage_log(content)
ParseLog ==
    /\ pc = "parse"
    /\ loc' = [loc EXCEPT !.disks = get_storage_log(loc.content)]
    /\ obs' = [obs EXCEPT !.parsed = TRUE]
    /\ pc' = "save"
    /\ UNCHANGED <<calls, tool, raw, logFolder, logdir, writes, now, run, result, logged>>

SaveOutcomes == {"ok", "open_fails", "write_fails"}

\* lines 285-290: the parsed records are saved unless there are none
Persist ==
    /\ pc = "save"
    /\ IF loc.disks = <<>>
       THEN /\ obs' = [obs EXCEPT !.save = "skipped"]
            /\ UNCHANGED <<logdir, writes>>
       ELSE \E io \in SaveOutcomes :
               /\ logdir' = save_storage_info(logdir, loc.disks,
                                path_storage_info_log(loc.timestamp), io, writes + 1)
               /\ writes' = IF io = "open_fails" THEN writes ELSE writes + 1
               /\ obs' = [obs EXCEPT !.save = io]
    /\ pc' = "remove"
    /\ UNCHANGED <<calls, tool, raw, logFolder, now, run, loc, result, logged>>

\* lines 292-300 with the value returned after a failed os.remove
RemoveRawStep(afterFailure) ==
    /\ pc = "remove"
    /\ \E io \in {"ok", "fails"} :
          /\ io = "ok" => raw.exists
          /\ raw' = IF io = "ok" THEN NoFile ELSE raw
          /\ obs' = [obs EXCEPT !.removes = @ + 1, !.remove = io]
          /\ result' = IF io = "ok" THEN "True" ELSE afterFailure
    /\ pc' = "returned"
    /\ UNCHANGED <<calls, tool, logFolder, logdir, writes, now, run, loc, logged>>

\* mutant: a failed deletion fails the call
RemoveRaw_FailureFails == RemoveRawStep("False")

\* lines 292-300: os.remove(log_file_default), its failure only logged; return True
RemoveRaw == RemoveRawStep("True")

\* the caller takes the result (src/src/main.py line 183); its next call
\* follows within the same second or in a later epoch.  What is recorded
\* about the finished call is forgotten.
Return ==
    /\ pc = "returned"
    /\ pc' = "idle"
    /\ loc' = NoLocals
    /\ logged' = "none"
    /\ obs' = NewObs(FALSE)
    /\ result' = "none"
    /\ tool' = [r \in Procs |-> IF tool[r].st = "exited" THEN NoTool
                               ELSE [tool[r] EXCEPT !.early = FALSE, !.long = FALSE]]
    /\ raw' = [raw EXCEPT !.by = 0]
    /\ \E later \in BOOLEAN :
          /\ ~later => now % Epoch < TicksPerSecond
          /\ now' = IF later THEN (now \div Epoch + 1) * Epoch ELSE now
    /\ UNCHANGED <<calls, logFolder, logdir, writes, run>>

-----------------------------------------------------------------------------
(* Environment: the launched DiskInfo32.exe processes, the clock, the disk *)

\* the launched process shows up in the process table
ToolAppear(r) ==
    /\ tool[r].st = "pending"
    /\ tool' = [tool EXCEPT ![r] = [st |-> "running",
                    early |-> (r = run /\ pc \in {"poll", "sleep"}
                               /\ now = loc.start_time),
                    long |-> FALSE]]
    /\ UNCHANGED <<calls, raw, logFolder, logdir, writes, now, pc, run, loc,
                   result, logged, obs>>

\* /CopyExit: the process writes DiskInfo.txt and leaves the process table
\* (or dies before writing).  long: it was listed from the start of the wait
\* of its own call for more than the timeout
ToolExit(r) ==
    /\ tool[r].st = "running"
    /\ \E out \in {"nothing", "report"} :
          IF out = "nothing" THEN UNCHANGED raw
          ELSE \E text \in ToolReports :
                  raw' = [exists |-> TRUE, text |-> text, by |-> r]
    /\ tool' = [tool EXCEPT ![r].st = "exited",
                    ![r].long = (tool[r].early /\ r = run
                                 /\ now - loc.start_time > timeout * TicksPerSecond)]
    /\ UNCHANGED <<calls, logFolder, logdir, writes, now, pc, run, loc,
                   result, logged, obs>>

Next ==
    \/ CheckExecutable
    \/ Launch
    \/ Poll
    \/ Sleep
    \/ CheckExists
    \/ CheckSize
    \/ CopyRaw
    \/ ParseLog
    \/ Persist
    \/ RemoveRaw
    \/ Return
    \/ \E r \in Procs : ToolAppear(r)
    \/ \E r \in Procs : ToolExit(r)

Spec == Init /\ [][Next]_vars

\* a call up to the end of its wait loop (lines 208-256), with the processes
\* around it
NextWait ==
    \/ CheckExecutable
    \/ Launch
    \/ Poll
    \/ Sleep
    \/ \E r \in Procs : ToolAppear(r)
    \/ \E r \in Procs : ToolExit(r)

\* the thread that runs the call goes on: a poll that can be made is made,
\* and time.sleep(0.5) returns
SpecWait == Init /\ [][NextWait]_vars /\ WF_vars(Poll) /\ WF_vars(Sleep)

-----------------------------------------------------------------------------
(* The parser alone: get_storage_log on report texts put together from the *)
(* lines and blocks of a report, in any order                              *)

Chunks ==
    { <<DISK_LIST_BANNER>>, EntryLine, <<RULE>>, DetailBlock,
      <<"CrystalDiskInfo">>, <<>> }

\* texts of at most MaxChunks chunks, one chunk after the other, each on
\* lines of its own
ChunkTexts == { Join(c) : c \in UNION { [1..n -> Chunks] : n \in 0..MaxChunks } }

\* values a detail block may state for one device: what follows the colon,
\* without the unit of the three numeric fields
FieldValues ==
    [ {"Model"} -> {<<"SSD-A">>, <<"SSD", SP, "B">>} ]
    \X [ {"Disk Size"} -> {<<"100", ".", "2", SP, "GB">>} ]
    \X [ {"Interface"} -> {<<"NVMe">>, <<"Serial", SP, "ATA">>} ]
    \X [ {"Power On Hours"} -> {<<"760">>, <<"0">>} ]
    \X [ {"Power On Count"} -> {<<"42">>} ]
    \X [ {"Host Writes"} -> {<<"8", ",", "760">>, <<"100">>, <<"1", ".", "2">>} ]
    \X [ {"Health Status"} -> {<<"Good">>, <<"Good", SP, "(", "100", SP, "%", ")">>} ]

\* the devices: one value for each of the seven fields
Devices == { v[1] @@ v[2] @@ v[3] @@ v[4] @@ v[5] @@ v[6] @@ v[7] : v \in FieldValues }

\* the order of the field lines in a detail block
FieldOrder ==
    <<"Model", "Disk Size", "Interface", "Power On Hours", "Power On Count",
      "Host Writes", "Health Status">>

\* the unit DiskInfo32.exe writes after the value
UnitOf(name) ==
    CASE name = "Power On Hours" -> <<SP, "jikan">>
      [] name = "Power On Count" -> <<SP, "kai">>
      [] name = "Host Writes" -> <<SP, "GB">>
      [] OTHER -> <<>>

\* "<label> : <value>[ <unit>]"
LineOf(name, value) == <<name, SP, ":", SP>> \o value \o UnitOf(name)

\* the field lines of device dev in order, with line[name] in place of the
\* usual line where line has one, and without the lines of the fields in skip
RECURSIVE LinesFrom(_, _, _, _)
LinesFrom(dev, i, skip, line) ==
    IF i > Len(FieldOrder) THEN <<>>
    ELSE LET name == FieldOrder[i]
         IN  (IF name \in skip THEN <<>>
              ELSE IF name \in DOMAIN line THEN <<line[name]>>
              ELSE <<LineOf(name, dev[name])>>)
             \o LinesFrom(dev, i + 1, skip, line)

\* a report of one device: the disk list with its entry, and its detail block
NoLines == [n \in {} |-> <<>>]

DeviceReport(dev, skip, line) ==
    Join(<< <<DISK_LIST_BANNER>>, <<SP, "(", "1", ")", SP>> \o dev["Model"], <<>>,
            <<RULE>>, <<SP, "(", "1", ")", SP>> \o dev["Model"], <<RULE>>,
            Join(LinesFrom(dev, 1, skip, line)), SmartLine >>)

\* well-formed: all seven field lines
WellFormed(dev) == DeviceReport(dev, {}, NoLines)
\* the line of one field is missing
Without(dev, name) == DeviceReport(dev, {name}, NoLines)
\* the Power On Hours line is written with a grouping comma, or with the
\* unit in another language
HoursGrouped ==
    <<"Power On Hours", SP, ":", SP, "8", ",", "760", SP, "jikan">>
HoursOtherUnit ==
    <<"Power On Hours", SP, ":", SP, "760", SP, "hours">>
WithHoursLine(dev, hours) == DeviceReport(dev, {}, "Power On Hours" :> hours)

\* the device of the reports that differ in the Power On Hours line only
SomeDevice == CHOOSE dev \in Devices : dev["Host Writes"] = <<"8", ",", "760">>

\* a second device, with a colon in a value
OddDevice ==
    ("Model" :> <<"SSD", SP, "B">>) @@ ("Disk Size" :> <<"100", ".", "2", SP, "GB">>)
    @@ ("Interface" :> <<"NVMe">>) @@ ("Power On Hours" :> <<"0">>)
    @@ ("Power On Count" :> <<"42">>) @@ ("Host Writes" :> <<"100">>)
    @@ ("Health Status" :> <<"Good", ":", SP, "1">>)

\* the header of the detail block of device number n
HeaderOf(n, dev) == <<SP, "(", n, ")", SP>> \o dev["Model"]

\* three devices that differ in every field but Disk Size
DevA == [SomeDevice EXCEPT !["Model"] = <<"SSD-A">>, !["Power On Hours"] = <<"760">>]
DevB == OddDevice
DevC == [OddDevice EXCEPT !["Model"] = <<"SSD-C">>, !["Power On Count"] = <<"8">>]

\* the lines of the detail block of device b[2], headed as number b[1]
BlockLines(b) ==
    << <<RULE>>, HeaderOf(b[1], b[2]), <<RULE>>,
       Join(LinesFrom(b[2], 1, {}, NoLines)), SmartLine >>

RECURSIVE BlocksFrom(_, _)
BlocksFrom(blocks, i) ==
    IF i > Len(blocks) THEN <<>>
    ELSE BlockLines(blocks[i]) \o BlocksFrom(blocks, i + 1)

\* a report whose disk list names the devices devs in order and whose detail
\* blocks are blocks in order
ListedReport(devs, blocks) ==
    Join(<< <<DISK_LIST_BANNER>> >>
         \o [i \in 1..Len(devs) |-> HeaderOf(IdxToken(i), devs[i])]
         \o << <<>> >>
         \o (IF blocks = <<>> THEN << <<RULE>> >> ELSE BlocksFrom(blocks, 1)))

\* disk lists of one and of two devices
ListedDevices == { <<DevA>>, <<DevA, DevB>> }
\* detail blocks: none, fewer or more than listed, in the order of the list
\* or not
ListedBlocks ==
    { <<>>, << <<"1", DevA>> >>, << <<"2", DevB>> >>,
      << <<"1", DevA>>, <<"2", DevB>> >>,
      << <<"2", DevB>>, <<"1", DevA>> >>,
      << <<"1", DevA>>, <<"2", DevB>>, <<"3", DevC>> >> }
\* the reports of them: devices listed, blocks, text
ListedCases ==
    { <<devs, blocks, ListedReport(devs, blocks)>> :
          devs \in ListedDevices, blocks \in ListedBlocks }

\* a second value for each field, and the line that states it
OtherValue(name) ==
    CASE name = "Model" -> <<"SSD-C">>
      [] name = "Disk Size" -> <<"1", SP, "GB">>
      [] name = "Interface" -> <<"USB">>
      [] name = "Power On Hours" -> <<"1">>
      [] name = "Power On Count" -> <<"2">>
      [] name = "Host Writes" -> <<"2", ".", "1">>
      [] name = "Health Status" -> <<"Bad">>
\* a line with the label that the pattern of the field does not match: the
\* number is grouped or has no digit, or the unit is missing
UnmatchedLine(name) ==
    CASE name = "Power On Hours" -> HoursGrouped
      [] name = "Power On Count" -> <<"Power On Count", SP, ":", SP, "many", SP, "kai">>
      [] name = "Host Writes" -> <<"Host Writes", SP, ":", SP, "100">>
NumericFields == {"Power On Hours", "Power On Count", "Host Writes"}
\* reports of DevA with the label of one field on two lines: field, text.
\* Both lines are matched by the pattern of the field ...
TwiceCases ==
    { <<name, DeviceReport(DevA, {},
                 name :> Join(<<LineOf(name, DevA[name]),
                                LineOf(name, OtherValue(name))>>))>> :
          name \in FieldNames }
\* ... or the first line is not
UnmatchedFirstCases ==
    { <<name, DeviceReport(DevA, {},
                 name :> Join(<<UnmatchedLine(name),
                                LineOf(name, OtherValue(name))>>))>> :
          name \in NumericFields }

\* reports with more or fewer blocks than devices listed, and with a label
\* twice
CaseTexts ==
    {c[3] : c \in ListedCases} \cup {c[2] : c \in TwiceCases}
    \cup {c[2] : c \in UnmatchedFirstCases}

DeviceTexts ==
    { WellFormed(dev) : dev \in Devices }
    \cup { Without(dev, name) : dev \in Devices, name \in FieldNames }
    \cup { WithHoursLine(SomeDevice, HoursGrouped),
           WithHoursLine(SomeDevice, HoursOtherUnit) }

\* the texts get_storage_log is applied to
ParseTexts == (ChunkTexts \ {<<>>}) \cup DeviceTexts \cup CaseTexts

\* the call has copied DiskInfo.txt (lines 273-276) and is about to parse
InitParse ==
    /\ tool = [r \in Procs |-> IF r = MaxRuns THEN [NoTool EXCEPT !.st = "exited"]
                               ELSE NoTool]
    /\ \E text \in ParseTexts :
          /\ raw = [exists |-> TRUE, text |-> text, by |-> MaxRuns]
          /\ loc = [NoLocals EXCEPT !.content = text]
          /\ logdir = WriteFile(EmptyDir, path_CrystalDiskInfo_log(0), text, 1)
          /\ obs = [sawExe |-> TRUE, rawAtStart |-> NoFile, dirAtStart |-> EmptyDir,
                    launches |-> 1, raised |-> FALSE, code |-> 33,
                    polled |-> TRUE, seen |-> FALSE, elapsed |-> 1,
                    wait |-> "Done", rawAfterWait |-> "data", sizeChecked |-> TRUE,
                    reads |-> 1, copy |-> "ok", parsed |-> FALSE, save |-> "none",
                    removes |-> 0, remove |-> "none",
                    query |-> "none", asked |-> <<>>, answer |-> None]
    /\ logFolder = TRUE
    /\ writes = 1
    /\ now = 1
    /\ pc = "parse"
    /\ run = MaxRuns
    /\ result = "none"
    /\ logged = "none"
    /\ calls = NoCalls

NextParse == ParseLog

SpecParse == InitParse /\ [][NextParse]_vars

-----------------------------------------------------------------------------
(* The log folder over several calls: whole calls of                       *)
(* get_CrystalDiskInfo_log that reach the parse, and the catalog queries   *)
(* search_storage_log and get_storage_info between them                    *)

MaxCollects == 2    \* calls of get_CrystalDiskInfo_log
MaxSeconds == 2     \* seconds the clock advances

\* a report of two devices, the Power On Hours of the first with a unit
\* that line 142 does not know
TwoDeviceReport(d1, d2) ==
    Join(<< <<DISK_LIST_BANNER>>, HeaderOf("1", d1), HeaderOf("2", d2), <<>>,
            <<RULE>>, HeaderOf("1", d1), <<RULE>>,
            Join(LinesFrom(d1, 1, {}, "Power On Hours" :> HoursOtherUnit)), SmartLine,
            <<RULE>>, HeaderOf("2", d2), <<RULE>>,
            Join(LinesFrom(d2, 1, {}, NoLines)), SmartLine >>)

\* what DiskInfo32.exe left in DiskInfo.txt for a call
StoreTexts == { ReportOneDisk, TwoDeviceReport(SomeDevice, OddDevice) }

\* get_storage_log applied to the texts of StoreTexts: text, records
StoreRecords == { <<text, get_storage_log(text)>> : text \in StoreTexts }

\* a file of the log folder from before the program started, named for
\* second 0: an artifact of an earlier day, or one whose bytes are damaged
OldArtifacts ==
    { Serialize(<<[SomeDevice EXCEPT !["Host Writes"] = Remove(@, ",")]>>),
      <<"disuku", SP, "1", ":", NL, BAD>> }

InitStore ==
    /\ tool = [r \in Procs |-> NoTool]
    /\ raw = NoFile
    /\ logFolder = TRUE
    /\ \/ logdir = EmptyDir
       \/ \E text \in OldArtifacts :
             logdir = WriteFile(EmptyDir, path_storage_info_log(0), text, 0)
    /\ writes = 0
    /\ now = TicksPerSecond
    /\ pc = "idle"
    /\ run = 0
    /\ loc = NoLocals
    /\ result = "none"
    /\ logged = "none"
    /\ obs = NewObs(FALSE)
    /\ calls = NoCalls

\* a whole call of get_CrystalDiskInfo_log (lines 200-300) that finds text in
\* DiskInfo.txt after the wait and copies it: the wait loop ends without a
\* sleep when no process is listed at the first poll (lines 250-252), so a
\* call can begin and end within a second.  save is what the file system
\* does to save_storage_info; os.remove succeeds.
Collect(text, save) ==
    /\ pc = "idle"
    /\ run < MaxCollects
    /\ run' = run + 1
    /\ \E c \in StoreRecords :
       LET timestamp == now \div TicksPerSecond
           copied == WriteFile(logdir, path_CrystalDiskInfo_log(timestamp),
                               text, writes + 1)
           disks == c[2]
           saved == disks # <<>> /\ save # "open_fails"
       IN  /\ c[1] = text
           /\ save # "ok" => disks # <<>>
           /\ loc' = [timestamp |-> timestamp, start_time |-> now,
                      content |-> text, disks |-> disks]
           /\ logdir' = IF disks = <<>> THEN copied
                        ELSE save_storage_info(copied, disks,
                                 path_storage_info_log(timestamp), save, writes + 2)
           /\ writes' = IF saved THEN writes + 2 ELSE writes + 1
           /\ obs' = [NewObs(TRUE) EXCEPT
                        !.launches = 1, !.code = 33, !.polled = TRUE,
                        !.wait = "Done", !.rawAfterWait = "data",
                        !.sizeChecked = TRUE, !.reads = 1, !.copy = "ok",
                        !.parsed = TRUE,
                        !.save = IF disks = <<>> THEN "skipped" ELSE save,
                        !.removes = 1, !.remove = "ok"]
    /\ raw' = NoFile
    /\ result' = "True"
    /\ logged' = "none"
    /\ UNCHANGED <<calls, tool, logFolder, now, pc>>

\* a second passes
Tick ==
    /\ now \div TicksPerSecond < MaxSeconds
    /\ now' = now + TicksPerSecond
    /\ UNCHANGED <<calls, tool, raw, logFolder, logdir, writes, pc, run, loc,
                   result, logged, obs>>

\* the caller lists the artifacts (src/src/main.py line 60)
ListLogs ==
    /\ pc = "idle"
    /\ obs' = [obs EXCEPT !.query = "list", !.asked = <<>>,
                          !.answer = ListOf(search_storage_log(logdir))]
    /\ UNCHANGED <<calls, tool, raw, logFolder, logdir, writes, now, pc, run, loc,
                   result, logged>>

\* names the caller may ask for: the artifacts search_storage_log lists, the
\* raw copy of the last call, and a name that is not there
ReadNames ==
    glob(logdir)
    \cup (DOMAIN logdir \cap {path_CrystalDiskInfo_log(loc.timestamp)})
    \cup {path_storage_info_log(MaxSeconds + 1)}

\* the caller reads log_filename (src/src/main.py line 94); after is the log
\* folder the call leaves
ReadLogStep(log_filename, after) ==
    /\ pc = "idle"
    /\ obs' = [obs EXCEPT !.query = "read", !.asked = log_filename,
                          !.answer = get_storage_info(logdir, log_filename)]
    /\ logdir' = after
    /\ UNCHANGED <<calls, tool, raw, logFolder, writes, now, pc, run, loc,
                   result, logged>>

\* mutant: a file that cannot be read is removed
ReadLog_DropsUnreadable ==
    \E log_filename \in ReadNames :
        ReadLogStep(log_filename,
            IF get_storage_info(logdir, log_filename).isNone
            THEN [f \in DOMAIN logdir \ {log_filename} |-> logdir[f]]
            ELSE logdir)

ReadLog == \E log_filename \in ReadNames : ReadLogStep(log_filename, logdir)

NextStore ==
    \/ \E text \in StoreTexts, save \in SaveOutcomes : Collect(text, save)
    \/ Tick
    \/ ListLogs
    \/ ReadLog

SpecStore == InitStore /\ [][NextStore]_vars

-----------------------------------------------------------------------------
(* Overlapping calls: get_CrystalDiskInfo_log called again while a call is   *)
(* running (src/src/main.py line 183 in two event handlers).  The calls      *)
(* share DiskInfo.txt, the process table and the log folder; the clock       *)
(* readings of lines 223 and 253 are inputs.                                 *)

\* seconds datetime.now() may show to a call (line 223)
Seconds == 1..2

\* c is past the launch and not past the removal of DiskInfo.txt
Between(cs, c) ==
    cs[c].pc \in {"poll", "sleep", "check_exists", "check_size", "copy", "save", "remove"}

\* cs with the calls marked that are between launch and cleanup together
Mark(cs) ==
    [c \in Calls |->
        [cs[c] EXCEPT !.overlapped =
            @ \/ (Between(cs, c) /\ \E d \in Calls \ {c} : Between(cs, d))]]

\* return value (or "raised" for an exception that leaves the function)
Leave(c, kind, value) ==
    Mark([calls EXCEPT ![c].pc = "returned", ![c].logged = kind, ![c].result = value])

GoTo(c, position) == Mark([calls EXCEPT ![c].pc = position])

\* lines 208-239 of call c; free is what a lock would ask for
CheckExecutableOfStep(c, free) ==
    /\ calls[c].pc = "idle"
    /\ free
    /\ \E exists \in BOOLEAN, timestamp \in Seconds :
          /\ \A d \in Calls : calls[d].timestamp <= timestamp
          /\ IF ~exists
             THEN /\ calls' = Leave(c, "ToolNotFound", "False")
                  /\ UNCHANGED logFolder
             ELSE /\ calls' = Mark([calls EXCEPT ![c].pc = "launch",
                                                 ![c].timestamp = timestamp])
                  /\ logFolder' = TRUE
    /\ UNCHANGED <<tool, raw, logdir, writes, now, pc, run, loc, result, logged, obs>>

\* mutant: a call begins only when no other call is running
CheckExecutableOf_Serialized(c) ==
    CheckExecutableOfStep(c, \A d \in Calls \ {c} : calls[d].pc \in {"idle", "returned"})

\* lines 208-239: nothing is tested but the executable
CheckExecutableOf(c) == CheckExecutableOfStep(c, TRUE)

\* lines 241-248
LaunchOf(c) ==
    /\ calls[c].pc = "launch"
    /\ \E raised \in BOOLEAN, code \in ShellExecuteResults :
          IF run_CrystalDiskInfo(raised, code)
          THEN /\ tool' = [tool EXCEPT ![c] = [NoTool EXCEPT !.st = "pending"]]
               /\ calls' = GoTo(c, "poll")
          ELSE /\ calls' = Leave(c, "LaunchFailed", "False")
               /\ UNCHANGED tool
    /\ UNCHANGED <<raw, logFolder, logdir, writes, now, pc, run, loc, result, logged, obs>>

\* line 250: a DiskInfo32.exe of any call is in the process table
AnyListed == \E d \in Calls : tool[d].st \in InTable

\* one pass of the loop of lines 249-256 up to the sleep; elapsed is
\* time.time() - start_time in seconds
PollOf(c) ==
    /\ calls[c].pc = "poll"
    /\ \E elapsed \in {0, timeout + 1} :
          calls' = IF ~AnyListed THEN GoTo(c, "check_exists")
                   ELSE IF elapsed > timeout
                        THEN Leave(c, "CollectionTimedOut", "False")
                        ELSE GoTo(c, "sleep")
    /\ UNCHANGED <<tool, raw, logFolder, logdir, writes, now, pc, run, loc, result,
                   logged, obs>>

\* line 256
SleepOf(c) ==
    /\ calls[c].pc = "sleep"
    /\ calls' = GoTo(c, "poll")
    /\ UNCHANGED <<tool, raw, logFolder, logdir, writes, now, pc, run, loc, result,
                   logged, obs>>

\* lines 258-263
CheckExistsOf(c) ==
    /\ calls[c].pc = "check_exists"
    /\ calls' = IF ~raw.exists THEN Leave(c, "ArtifactMissing", "False")
                ELSE GoTo(c, "check_size")
    /\ UNCHANGED <<tool, raw, logFolder, logdir, writes, now, pc, run, loc, result,
                   logged, obs>>

\* lines 265-270: os.path.getsize is outside every try, so for a file that
\* is gone since line 259 its OSError leaves the function
CheckSizeOf(c) ==
    /\ calls[c].pc = "check_size"
    /\ calls' = IF ~raw.exists THEN Leave(c, "none", "raised")
                ELSE IF Len(raw.text) = 0 THEN Leave(c, "ArtifactEmpty", "False")
                ELSE GoTo(c, "copy")
    /\ UNCHANGED <<tool, raw, logFolder, logdir, writes, now, pc, run, loc, result,
                   logged, obs>>

\* lines 272-280: DiskInfo.txt is opened first; when it is gone nothing is
\* created
CopyRawOf(c) ==
    /\ calls[c].pc = "copy"
    /\ \E io \in CopyOutcomes :
          /\ ~raw.exists => io = "open_fails"
          /\ CASE io = "ok" ->
                   /\ calls' = Mark([calls EXCEPT ![c].pc = "save",
                                                  ![c].content = raw.text,
                                                  ![c].from = raw.by])
                   /\ logdir' = WriteFile(logdir,
                                    path_CrystalDiskInfo_log(calls[c].timestamp),
                                    raw.text, writes + 1)
                   /\ writes' = writes + 1
               [] io = "open_fails" ->
                   /\ calls' = Leave(c, "CopyFailed", "False")
                   /\ UNCHANGED <<logdir, writes>>
               [] io = "read_fails" ->
                   /\ calls' = Leave(c, "CopyFailed", "False")
                   /\ logdir' = WriteFile(logdir,
                                    path_CrystalDiskInfo_log(calls[c].timestamp),
                                    <<>>, writes + 1)
                   /\ writes' = writes + 1
    /\ UNCHANGED <<tool, raw, logFolder, now, pc, run, loc, result, logged, obs>>

\* lines 283-290: the content is parsed and the records are saved unless
\* there are none
PersistOf(c) ==
    /\ calls[c].pc = "save"
    /\ \E r \in StoreRecords :
          /\ r[1] = calls[c].content
          /\ IF r[2] = <<>>
             THEN UNCHANGED <<logdir, writes>>
             ELSE \E io \in SaveOutcomes :
                     /\ logdir' = save_storage_info(logdir, r[2],
                                      path_storage_info_log(calls[c].timestamp),
                                      io, writes + 1)
                     /\ writes' = IF io = "open_fails" THEN writes ELSE writes + 1
    /\ calls' = GoTo(c, "remove")
    /\ UNCHANGED <<tool, raw, logFolder, now, pc, run, loc, result, logged, obs>>

\* lines 292-300: os.remove fails when the file is gone; the failure is
\* logged and True is returned
RemoveRawOf(c) ==
    /\ calls[c].pc = "remove"
    /\ \E io \in {"ok", "fails"} :
          /\ io = "ok" => raw.exists
          /\ raw' = IF io = "ok" THEN NoFile ELSE raw
    /\ calls' = Leave(c, "none", "True")
    /\ UNCHANGED <<tool, logFolder, logdir, writes, now, pc, run, loc, result,
                   logged, obs>>

\* the process launched by call c shows up in the process table
ToolAppearOf(c) ==
    /\ tool[c].st = "pending"
    /\ tool' = [tool EXCEPT ![c].st = "running"]
    /\ UNCHANGED <<calls, raw, logFolder, logdir, writes, now, pc, run, loc, result,
                   logged, obs>>

\* /CopyExit: it writes DiskInfo.txt (or dies before) and leaves the table
ToolExitOf(c) ==
    /\ tool[c].st = "running"
    /\ \E out \in {"nothing", "report"} :
          IF out = "nothing" THEN UNCHANGED raw
          ELSE \E text \in StoreTexts :
                  raw' = [exists |-> TRUE, text |-> text, by |-> c]
    /\ tool' = [tool EXCEPT ![c].st = "exited"]
    /\ UNCHANGED <<calls, logFolder, logdir, writes, now, pc, run, loc, result,
                   logged, obs>>

\* the steps of call c
StepOf(c) ==
    \/ CheckExecutableOf(c)
    \/ LaunchOf(c)
    \/ PollOf(c)
    \/ SleepOf(c)
    \/ CheckExistsOf(c)
    \/ CheckSizeOf(c)
    \/ CopyRawOf(c)
    \/ PersistOf(c)
    \/ RemoveRawOf(c)

InitOverlap ==
    /\ tool = [c \in Calls |-> NoTool]
    /\ raw = NoFile
    /\ logFolder = FALSE
    /\ logdir = EmptyDir
    /\ writes = 0
    /\ now = 0
    /\ pc = "idle"
    /\ run = 0
    /\ loc = NoLocals
    /\ result = "none"
    /\ logged = "none"
    /\ obs = NewObs(FALSE)
    /\ calls = NoCalls

NextOverlap ==
    \/ \E c \in Calls : StepOf(c)
    \/ \E c \in Calls : ToolAppearOf(c)
    \/ \E c \in Calls : ToolExitOf(c)

SpecOverlap == InitOverlap /\ [][NextOverlap]_vars

-----------------------------------------------------------------------------
(* Properties of get_CrystalDiskInfo_log *)

\* a call is under way or has returned and its result is not yet taken
InCall == pc # "idle"
Returned == pc = "returned"
\* the call wrote nothing into the log folder
NothingWritten == logdir = obs.dirAtStart
\* no DiskInfo.txt of this call's own tool exists
NoOwnRaw == raw.exists => raw.by # run
TimeoutTicks == timeout * TicksPerSecond

\* C1: when the executable is not found the call returns False with
\* ToolNotFound at once: the tool is not launched, the process table is not
\* read, DiskInfo.txt is neither read nor removed nor written by a tool of
\* this call, and no log file is written.
C1_ToolNotFound ==
    (InCall /\ ~obs.sawExe) =>
        /\ Returned
        /\ result = "False"
        /\ logged = "ToolNotFound"
        /\ obs.launches = 0
        /\ tool[run].st = "none"
        /\ ~obs.polled
        /\ obs.wait = "none"
        /\ obs.reads = 0
        /\ obs.removes = 0
        /\ NoOwnRaw
        /\ NothingWritten

\* a call that did not find the executable, with a DiskInfo.txt left by
\* someone else still in place
C1_Witness ==
    /\ Returned
    /\ ~obs.sawExe
    /\ logged = "ToolNotFound"
    /\ raw.exists
    /\ raw = obs.rawAtStart

\* C2 (as claimed): whenever DiskInfo.txt exists after the wait, the call
\* reads it at most once and has removed it (or tried to) when it returns,
\* whatever the later steps did.
C2_RawAlwaysRemoved ==
    (Returned /\ obs.rawAfterWait \in {"exists", "empty", "data"}) =>
        /\ obs.reads <= 1
        /\ obs.removes >= 1

\* C3 (as claimed): a report that parses to no records is a success and its
\* (empty) parsed file storage_info_log_<ts>.txt is written.
C3_EmptyReportPersisted ==
    (Returned /\ obs.parsed /\ loc.disks = <<>>) =>
        /\ result = "True"
        /\ path_storage_info_log(loc.timestamp) \in DOMAIN logdir

\* C4 (as claimed): when writing the parsed file fails the call returns
\* False (PersistFailed).
C4_PersistFailureFails ==
    (Returned /\ obs.save \in {"open_fails", "write_fails"}) =>
        /\ result = "False"
        /\ logged # "none"

\* C5: when a poll finds the process still listed with more than the timeout
\* elapsed, the call returns False with CollectionTimedOut: DiskInfo.txt is
\* not read, nothing is copied or saved, and the tool was launched once.
C5_TimedOut ==
    (InCall /\ obs.polled /\ obs.seen /\ obs.elapsed > TimeoutTicks) =>
        /\ Returned
        /\ result = "False"
        /\ logged = "CollectionTimedOut"
        /\ obs.wait = "TimedOut"
        /\ obs.rawAfterWait = "unknown"
        /\ obs.reads = 0
        /\ obs.copy = "none"
        /\ ~obs.parsed
        /\ obs.save = "none"
        /\ NothingWritten
        /\ obs.launches = 1

\* a timed out call, a DiskInfo.txt lying there unread
C5_Witness ==
    /\ Returned
    /\ logged = "CollectionTimedOut"
    /\ obs.seen
    /\ obs.elapsed > TimeoutTicks
    /\ raw.exists
    /\ tool[run].st = "running"

C7_LaunchFailed ==
    (InCall /\ obs.launches > 0 /\ (obs.raised \/ obs.code <= 32)) =>
        /\ Returned
        /\ result = "False"
        /\ logged = "LaunchFailed"
        /\ obs.launches = 1
        /\ tool[run].st = "none"
        /\ ~obs.polled
        /\ obs.wait = "none"
        /\ obs.rawAfterWait = "unknown"
        /\ obs.reads = 0
        /\ obs.removes = 0
        /\ NoOwnRaw
        /\ NothingWritten

\* ShellExecuteW returned exactly 32 and the call failed
C7_Witness ==
    /\ Returned
    /\ obs.launches = 1
    /\ ~obs.raised
    /\ obs.code = 32
    /\ logged = "LaunchFailed"

\* C8: after a wait that ended Done, a missing DiskInfo.txt fails the call
\* with ArtifactMissing and an empty one with ArtifactEmpty; neither the
\* copy nor the parsed file is written; the size is looked at only after
\* the file was found to exist.
C8_ArtifactChecks ==
    /\ (InCall /\ obs.rawAfterWait = "missing") =>
          /\ Returned
          /\ result = "False"
          /\ logged = "ArtifactMissing"
          /\ ~obs.sizeChecked
    /\ (InCall /\ obs.rawAfterWait = "empty") =>
          /\ Returned
          /\ result = "False"
          /\ logged = "ArtifactEmpty"
    /\ obs.rawAfterWait \in {"missing", "empty"} =>
          /\ obs.wait = "Done"
          /\ obs.reads = 0
          /\ obs.copy = "none"
          /\ obs.save = "none"
          /\ NothingWritten
    /\ obs.sizeChecked => obs.rawAfterWait \in {"empty", "data"}
    /\ pc = "check_size" => (obs.rawAfterWait = "exists" /\ raw.exists)
    /\ pc \in {"copy", "parse", "save", "remove"} => obs.rawAfterWait = "data"

\* the tool left without a usable report: an empty DiskInfo.txt fails the call
C8_Witness ==
    /\ Returned
    /\ logged = "ArtifactEmpty"
    /\ obs.sizeChecked
    /\ raw.exists
    /\ Len(raw.text) = 0
    /\ tool[run].st = "exited"

\* C9: a call that reached the removal of DiskInfo.txt returns True whether
\* os.remove succeeded or failed, and logs no failure.
C9_RemoveFailureIgnored ==
    (Returned /\ obs.remove # "none") =>
        /\ result = "True"
        /\ logged = "none"
        /\ obs.copy = "ok"
        /\ obs.parsed
        /\ obs.removes = 1

\* os.remove failed, DiskInfo.txt is still there, the call returned True
C9_Witness ==
    /\ Returned
    /\ obs.remove = "fails"
    /\ raw.exists
    /\ result = "True"

-----------------------------------------------------------------------------
(* Properties of get_storage_log *)

\* the text was parsed and the records are in disks
Parsed == pc = "save" /\ obs.parsed
\* the device list found in the text has no "(N) model" entry
NoListedEntry(text) ==
    \/ ~DISK_LIST_PATTERN(text).found
    \/ DISK_ENTRY_PATTERN(DISK_LIST_PATTERN(text).group) = <<>>

RecordOf(dev) == [dev EXCEPT !["Host Writes"] = Remove(@, ",")]
\* the well-formed reports: device, text
WellFormedCases == { <<dev, WellFormed(dev)>> : dev \in Devices }
\* the reports without one field line: device, field, text
WithoutCases ==
    { <<dev, name, Without(dev, name)>> : dev \in Devices, name \in FieldNames }
HoursGroupedReport == WithHoursLine(SomeDevice, HoursGrouped)
HoursOtherUnitReport == WithHoursLine(SomeDevice, HoursOtherUnit)

\* C11: a well-formed report of one device with all seven field lines parses
\* to exactly one record; each value is the value of the line, Host Writes
\* without its commas.
C11_WellFormedParsed ==
    Parsed =>
        \A c \in WellFormedCases :
            loc.content = c[2] => loc.disks = <<RecordOf(c[1])>>

\* a well-formed report whose Host Writes has a comma, parsed to one record
\* that has none
C11_Witness ==
    /\ Parsed
    /\ \E c \in WellFormedCases :
          /\ loc.content = c[2]
          /\ c[1]["Host Writes"] = <<"8", ",", "760">>
          /\ Len(loc.disks) = 1
          /\ loc.disks[1]["Host Writes"] = <<"8", "760">>

\* C12: a report whose detail block lacks exactly one field line parses to
\* one record with "N/A" in that field and the values of the lines in the
\* other six.
C12_OneFieldMissing ==
    Parsed =>
        \A c \in WithoutCases :
            loc.content = c[3] =>
                loc.disks = <<[RecordOf(c[1]) EXCEPT ![c[2]] = NA]>>

\* a report without the Health Status line, parsed to a record with N/A
\* there and the six other values
C12_Witness ==
    /\ Parsed
    /\ \E c \in WithoutCases :
          /\ c[2] = "Health Status"
          /\ loc.content = c[3]
          /\ Len(loc.disks) = 1
          /\ loc.disks[1]["Health Status"] = NA
          /\ \A name \in FieldNames \ {"Health Status"} : loc.disks[1][name] # NA

\* C13 (as claimed): a Power On Hours line with a grouping comma
\* ("8,760 jikan") yields "8760", and a line with another unit text
\* ("760 hours") yields "760".
C13_HoursNormalised ==
    Parsed =>
        /\ loc.content = HoursGroupedReport =>
              (Len(loc.disks) = 1 /\ loc.disks[1]["Power On Hours"] = <<"8", "760">>)
        /\ loc.content = HoursOtherUnitReport =>
              (Len(loc.disks) = 1 /\ loc.disks[1]["Power On Hours"] = <<"760">>)

\* C17: every record get_storage_log returns has exactly the seven keys, each
\* with a text (a value or "N/A").
C17_SevenKeys ==
    Parsed =>
        \A i \in 1..Len(loc.disks) :
            /\ DOMAIN loc.disks[i] = FieldNames
            /\ \A name \in FieldNames : loc.disks[i][name] \in Seq(STRING)

\* a record of a block without field lines that are found: seven keys, all N/A
\* but one
C17_Witness ==
    /\ Parsed
    /\ Len(loc.disks) >= 1
    /\ DOMAIN loc.disks[1] = FieldNames
    /\ loc.disks[1]["Model"] = NA
    /\ loc.disks[1]["Interface"] # NA

-----------------------------------------------------------------------------
(* Properties of the log folder: save_storage_info, search_storage_log and
   get_storage_info *)

\* the last operation was a query of the catalog
Listed == obs.query = "list"
ReadAsked == obs.query = "read"
\* the artifact the last call of get_CrystalDiskInfo_log saved
OwnArtifact == path_storage_info_log(loc.timestamp)
OwnRawCopy == path_CrystalDiskInfo_log(loc.timestamp)
\* the keys get_storage_info gives the label of a field line
KeyOf(name) == <<name>>
\* the records as get_storage_info returns them: a dict per record, keyed by
\* the seven labels
AsRead(disks) ==
    [i \in 1..Len(disks) |->
        [k \in {KeyOf(name) : name \in FieldNames} |-> disks[i][k[1]]]]
\* reports written and read back: none, one record of each device, and the
\* records of the reports of the store
Reports ==
    {<<>>} \cup {<<RecordOf(dev)>> : dev \in Devices}
    \cup {c[2] : c \in StoreRecords}
RoundTripCases ==
    { <<disks, parsed_disks(DISK_INFO_PATTERN(Serialize(disks)))>> :
          disks \in Reports }

\* C14: what save_storage_info wrote for a report is read back by
\* get_storage_info as the same number of records in the same order, each
\* with the same value under each of the seven labels and with no key for
\* the header line of the device.
C14_RoundTrip ==
    /\ (ReadAsked /\ run > 0 /\ obs.save = "ok" /\ obs.asked = OwnArtifact) =>
           obs.answer = ListOf(AsRead(loc.disks))
    /\ \A c \in RoundTripCases : c[2] = AsRead(c[1])

\* a report of two devices saved and read back: two records, a value with a
\* colon intact, no key of the header line
C14_Witness ==
    /\ ReadAsked /\ run > 0 /\ obs.save = "ok" /\ obs.asked = OwnArtifact
    /\ Len(loc.disks) = 2
    /\ ~obs.answer.isNone
    /\ Len(obs.answer.list) = 2
    /\ obs.answer.list[1][KeyOf("Power On Hours")] = NA
    /\ obs.answer.list[2][KeyOf("Health Status")] = <<"Good", ":", SP, "1">>
    /\ \A k \in DOMAIN obs.answer.list[2] : k[1] # "disuku"

\* C15: search_storage_log returns the artifacts most recent first: of two
\* names it returns, the one written later (and named for the later second)
\* comes earlier.
C15_NewestFirst ==
    Listed =>
        \A i, j \in 1..Len(obs.answer.list) :
            i < j =>
                /\ logdir[obs.answer.list[i]].mtime > logdir[obs.answer.list[j]].mtime
                /\ obs.answer.list[i][2] > obs.answer.list[j][2]

\* three artifacts written in three different seconds, listed
C15_Witness ==
    /\ Listed
    /\ Len(obs.answer.list) = 3
    /\ obs.answer.list[1] = OwnArtifact
    /\ obs.answer.list[3] = path_storage_info_log(0)

\* the file read last is in the folder and is damaged or foreign: bytes that
\* are not UTF-8, an artifact whose writing failed half way, or the raw copy
\* of a report
UndecodableAsked ==
    /\ obs.asked \in DOMAIN logdir
    /\ Undecodable(logdir[obs.asked].content)
TruncatedAsked ==
    /\ run > 0 /\ obs.save = "write_fails"
    /\ obs.asked = OwnArtifact
    /\ obs.asked \in DOMAIN logdir
ForeignAsked ==
    /\ obs.asked \in DOMAIN logdir
    /\ obs.asked[1] = "storage_health_log"

\* C16 (as claimed): get_storage_info of a file that is there, with damaged
\* or foreign content, returns the empty list.
C16_EmptyListOnDamage ==
    (ReadAsked /\ (UndecodableAsked \/ TruncatedAsked \/ ForeignAsked)) =>
        obs.answer = ListOf(<<>>)

\* C16 (amended): get_storage_info of a file that is there returns None
\* exactly when the file cannot be decoded; for a file of another format it
\* returns the empty list; for an artifact cut short it returns the records
\* of the device blocks that are in the file, each value the saved value or
\* its beginning.
C16_NoneOrBlocksPresent ==
    (ReadAsked /\ obs.asked \in DOMAIN logdir) =>
        /\ obs.answer.isNone <=> UndecodableAsked
        /\ (ForeignAsked /\ ~UndecodableAsked) => obs.answer = ListOf(<<>>)
        /\ TruncatedAsked =>
              /\ ~obs.answer.isNone
              /\ Len(obs.answer.list) \in 1..Len(loc.disks)
              /\ \A i \in 1..Len(obs.answer.list) :
                    \A k \in DOMAIN obs.answer.list[i] :
                        /\ k[1] \in FieldNames
                        /\ LET read == obs.answer.list[i][k]
                               saved == loc.disks[i][k[1]]
                           IN  /\ Len(read) <= Len(saved)
                               /\ read = Slice(saved, 1, Len(read))

\* a file that cannot be decoded, read as None
C16_Witness ==
    /\ ReadAsked
    /\ UndecodableAsked
    /\ obs.answer = None

\* C18 (as claimed): a file get_CrystalDiskInfo_log has written into the log
\* folder keeps its content: every artifact and raw copy that was there when
\* the last call began is there with the same content.
C18_ArtifactsImmutable ==
    \A f \in DOMAIN obs.dirAtStart :
        /\ f \in DOMAIN logdir
        /\ logdir[f].content = obs.dirAtStart[f].content

\* C19: search_storage_log filters nothing by age: the names it returns are
\* the files storage_info_log_*.txt of the folder, each once, however long
\* ago they were written.
C19_NoAgeFilter ==
    Listed =>
        /\ {obs.answer.list[i] : i \in 1..Len(obs.answer.list)} = glob(logdir)
        /\ Len(obs.answer.list) = Cardinality(glob(logdir))
        /\ \A f \in DOMAIN logdir :
              f[1] = "storage_info_log" =>
                  \E i \in 1..Len(obs.answer.list) : obs.answer.list[i] = f

\* the artifact of second 0 is listed two seconds later, after newer ones,
\* and the raw copies are not
C19_Witness ==
    /\ Listed
    /\ now \div TicksPerSecond = MaxSeconds
    /\ Len(obs.answer.list) >= 2
    /\ obs.answer.list[Len(obs.answer.list)] = path_storage_info_log(0)
    /\ OwnRawCopy \in DOMAIN logdir

\* C20: search_storage_log and get_storage_info change nothing: a query,
\* also of a name that is not there or of a file that cannot be read, leaves
\* the log folder, its files and DiskInfo.txt as they were.
C20_QueriesReadOnly ==
    [][(obs'.query # "none" /\ now' = now) =>
           UNCHANGED <<logdir, raw, logFolder, writes>>]_vars

\* a file that cannot be decoded was read and is still there, after a call
\* that saved an artifact beside it
C20_Witness ==
    /\ ReadAsked
    /\ UndecodableAsked
    /\ run > 0
    /\ OwnArtifact \in DOMAIN logdir
    /\ raw = NoFile

-----------------------------------------------------------------------------
(* Properties of the steps of one call and of the tool process it launches *)

\* the step that reads DiskInfo.txt into content (line 275)
CopiesRaw == pc = "copy" /\ pc' = "parse"

\* C21 (as claimed): the text a call copies and parses was written by the
\* DiskInfo32.exe that this call launched, never left in DiskInfo.txt from
\* before the call.
C21_NoStaleRaw ==
    [][CopiesRaw => (raw.exists /\ raw.by = run)]_vars

\* C22 (as claimed): when the wait loop is left by its break, the
\* DiskInfo32.exe this call launched has been in the process table and has
\* left it.
C22_DoneMeansExited ==
    (pc = "check_exists" /\ obs.wait = "Done") => tool[run].st = "exited"

\* C24: the steps of a call happen in the order launch, wait, validation of
\* DiskInfo.txt, copy, parse, save, removal: a step up to the save is taken
\* only after every step before it has succeeded, and DiskInfo.txt is
\* removed only after it has been read.
C24_StepOrder ==
    InCall =>
        /\ obs.polled => (obs.launches = 1 /\ ~obs.raised /\ obs.code > 32)
        /\ obs.wait # "none" => obs.polled
        /\ obs.rawAfterWait # "unknown" => (obs.wait = "Done" /\ ~obs.seen)
        /\ obs.sizeChecked => obs.rawAfterWait \in {"empty", "data"}
        /\ obs.copy # "none" => (obs.sizeChecked /\ obs.rawAfterWait = "data")
        /\ obs.reads > 0 => obs.copy \in {"ok", "read_fails"}
        /\ obs.parsed => (obs.copy = "ok" /\ obs.reads = 1)
        /\ obs.save # "none" => obs.parsed
        /\ obs.save \in SaveOutcomes => loc.disks # <<>>
        /\ obs.removes > 0 =>
              (obs.removes = 1 /\ obs.save # "none" /\ obs.reads = 1)

\* a call that took every step: launched, waited for a listed process, found
\* data, copied, parsed records, saved them and removed DiskInfo.txt
C24_Witness ==
    /\ Returned /\ result = "True"
    /\ obs.launches = 1 /\ obs.wait = "Done" /\ obs.elapsed > 0
    /\ obs.rawAfterWait = "data" /\ obs.copy = "ok" /\ obs.parsed
    /\ loc.disks # <<>>
    /\ obs.save = "ok" /\ obs.removes = 1 /\ obs.remove = "ok"
    /\ ~raw.exists

\* the failures a call logs before it returns False
FailureKinds ==
    {"ToolNotFound", "LaunchFailed", "CollectionTimedOut", "ArtifactMissing",
     "ArtifactEmpty", "CopyFailed"}

\* C25: a call launches the tool at most once, whichever failure occurs: a
\* failure ends the call, and after the wait loop is left the call neither
\* launches nor waits again.
C25_LaunchedOnce ==
    InCall =>
        /\ obs.launches <= 1
        /\ logged \in FailureKinds => (Returned /\ result = "False")
        /\ obs.wait # "none" => pc \notin {"launch", "poll", "sleep"}
        /\ pc \in {"poll", "sleep"} => obs.launches = 1

\* a call that failed after its tool ran and left an empty DiskInfo.txt: one
\* launch, one wait
C25_Witness ==
    /\ Returned /\ result = "False" /\ logged = "ArtifactEmpty"
    /\ obs.launches = 1
    /\ obs.wait = "Done"
    /\ tool[run].st = "exited"

\* the call is in the wait loop of lines 249-256
Waiting == pc \in {"poll", "sleep"}

-----------------------------------------------------------------------------
(* Properties of get_storage_log: blocks and lines that do not agree with    *)
(* the disk list or with each other                                          *)

\* the records of the devices of detail blocks, in their order
RecordsOf(blocks) == [i \in 1..Len(blocks) |-> RecordOf(blocks[i][2])]

C28_FirstLineWins ==
    Parsed =>
        \A c \in TwiceCases \cup UnmatchedFirstCases :
            loc.content = c[2] =>
                /\ Len(loc.disks) = 1
                /\ loc.disks[1][c[1]] # Remove(OtherValue(c[1]), ",")

\* C28 (amended): when the label of a field is on two lines of a block, the
\* value is that of the first line the pattern of the field matches: the
\* first line when both are matched, the second when the first is not (a
\* numeric field whose first line lacks the digits or the unit).
C28_FirstMatchWins ==
    Parsed =>
        /\ \A c \in TwiceCases :
              loc.content = c[2] =>
                  loc.disks = <<RecordOf(DevA)>>
        /\ \A c \in UnmatchedFirstCases :
              loc.content = c[2] =>
                  loc.disks = <<[RecordOf(DevA) EXCEPT ![c[1]] = OtherValue(c[1])]>>

\* Host Writes on two lines, the first without its unit: the value of the
\* second line
C28_Witness ==
    /\ Parsed
    /\ \E c \in UnmatchedFirstCases : c[1] = "Host Writes" /\ loc.content = c[2]
    /\ Len(loc.disks) = 1
    /\ loc.disks[1]["Host Writes"] = <<"2", ".", "1">>

-----------------------------------------------------------------------------
(* Properties of get_storage_info on an artifact whose writing was cut short *)

\* the keys of a complete record
SevenKeys == {KeyOf(name) : name \in FieldNames}

\* C30 (as claimed): get_storage_info of an artifact that save_storage_info
\* left cut short returns a list, empty or of records that each have all of
\* the seven fields.
C30_CompleteRecordsOnly ==
    (ReadAsked /\ TruncatedAsked) =>
        /\ ~obs.answer.isNone
        /\ \A i \in 1..Len(obs.answer.list) :
              DOMAIN obs.answer.list[i] = SevenKeys

-----------------------------------------------------------------------------
(* Properties of calls that overlap *)

\* C23: no call keeps another from running: a call that has not begun can
\* begin whatever the others are doing, and a call that has begun always has
\* its next step to take, wherever the others are between launch and
\* cleanup; nothing in get_CrystalDiskInfo_log waits for another call.
C23_NoMutualExclusion ==
    \A c \in Calls :
        /\ calls[c].pc = "idle" => ENABLED CheckExecutableOf(c)
        /\ calls[c].pc \notin {"idle", "returned"} => ENABLED StepOf(c)

\* two calls were between launch and cleanup together; the first copied and
\* removed the DiskInfo.txt that the tool of the second had written, and the
\* second, its own tool gone from the table, found no file
C23_Witness ==
    /\ calls[1].overlapped /\ calls[2].overlapped
    /\ calls[1].result = "True"
    /\ calls[1].from = 2
    /\ tool[2].st = "exited"
    /\ calls[2].logged = "ArtifactMissing"
    /\ calls[2].result = "False"

=============================================================================
